---- MODULE Spec2Model ----
(***************************************************************************)
(* Model of the motor_3D scene graph of Painter: the GLGraphicsItem        *)
(* hierarchy, the PickColorManager registry, the selection policy of       *)
(* GLViewWidget.mouseReleaseEvent and the MemoryBlock / VBO buffer         *)
(* planner.                                                                *)
(***************************************************************************)
EXTENDS Integers, Sequences, FiniteSets, TLC

\* ---------------------------------------------------------------- bounds
MaxItems == 3
MaxColor == 2
MaxDepth == 1
MaxChildren == 4
NBlocks == 3
MaxLen == 2
MaxByte == 1
MaxCalls == 2

Items == 1..MaxItems
None == 0
\* np.random.rand(1).astype(np.float32)[0]: 0 stands for 0.0, which the
\* generator can return and which is also the "no item" sentinel.
Colors == 0..MaxColor
DepthValues == 0..MaxDepth

VARIABLES
    state,          \* per item: "none" (not constructed), "live", "dead"
    parent,         \* GLGraphicsItem.__parent (None == 0)
    children,       \* GLGraphicsItem.__children
    depthValue,     \* GLGraphicsItem.__depthValue
    selectable,     \* GLGraphicsItem.__selectable
    selected,       \* GLGraphicsItem.__selected
    item_pickColor, \* GLGraphicsItem._pickColor
    registry,       \* PickColorManager: color -> item (None == absent)
    selected_items, \* GLViewWidget.selected_items
    last,           \* the last operation on the scene and what it saw
    ret             \* the list returned by the last recursiveChildItems()

sceneVars == <<state, parent, children, depthValue, selectable, selected,
               item_pickColor, registry, selected_items, last, ret>>

Blocks == 0..(NBlocks - 1)
Lengths == 0..MaxLen
Bytes == 0..MaxByte

VARIABLES
    block_lens,     \* MemoryBlock.block_lens: allocated bytes per block
    block_used,     \* MemoryBlock.block_used
    block_offsets,  \* MemoryBlock.block_offsets
    sum_lens,       \* MemoryBlock.sum_lens (nbytes)
    buf,            \* the data store of VBO._vbo, byte k at index k + 1
    vbo_last        \* the last updateData call and what it saw

vboVars == <<block_lens, block_used, block_offsets, sum_lens, buf, vbo_last>>

MaxViewItems == 3

\* the viewport's selection box, an item beside the scene's items
SelectBox == MaxItems + 1
AllItems == Items \cup {SelectBox}

VARIABLES
    gl_ready,       \* GLViewWidget.initializeGL has run
    view_items,     \* GLViewWidget.items
    item_view,      \* per item: GLGraphicsItem.__view is the viewport
    initialized,    \* GLGraphicsItem.__initialized
    initCount,      \* per item: how many times its initializeGL() has run
    init_last,      \* the last initialize() call and what it did
    lights          \* GLViewWidget.lights

initVars == <<gl_ready, view_items, item_view, initialized, initCount,
              init_last, lights>>

DevW == 8
DevH == 8
Margin == 1
MaxPicks == 1
MaxLights == 2
MaxPixels == 3
MaxRatio == 6
Lights == 1..MaxLights

VARIABLES
    gl_state,       \* the OpenGL state pickItems touches
    pick_last,      \* the last pickItems call and what it did
    npicks          \* number of pickItems calls so far

glVars == <<gl_state, pick_last, npicks>>

VARIABLES
    draw_last       \* the last drawItems call and what it did

drawVars == <<draw_last>>

VARIABLES
    plot,           \* a plot item (scatter or line): its fields
    gpu,            \* the plot item's VBO: allocated lengths and contents
    plot_last       \* the last setData / paint call and what it did

plotVars == <<plot, gpu, plot_last>>

MaxZ == 1200
MaxPan == 50

VARIABLES
    cam_z,          \* Camera.pos.z, in hundredths
    cam_press_z     \* GLViewWidget.cam_press_pos.z, in hundredths

camVars == <<cam_z, cam_press_z>>

MaxMouse == 2
MaxOrbit == 1

VARIABLES
    buttons,        \* the mouse buttons held (ev.buttons())
    press_pos,      \* GLViewWidget.press_pos
    last_pos,       \* GLViewWidget.last_pos
    cam_quat,       \* Camera.quat, as a rotation matrix
    cam_press_quat, \* GLViewWidget.cam_press_quat
    sel_start,      \* GLSelectBox.__selectStart
    sel_end,        \* GLSelectBox.__selectEnd
    sel_visible,    \* the select box is shown
    left_press_pos, \* the cursor position of the last left-button press
    mouse_last      \* the last mouse event and what it did

mouseVars == <<buttons, press_pos, last_pos, cam_quat, cam_press_quat,
               sel_start, sel_end, sel_visible, left_press_pos, mouse_last>>

VARIABLES
    visible         \* per item: GLGraphicsItem.__visible

visVars == <<visible>>

viewVars == <<initVars, glVars, drawVars, plotVars, camVars, mouseVars,
              visVars>>

notInitVars == <<sceneVars, vboVars, glVars, drawVars, plotVars, camVars,
                 mouseVars,
        visVars>>
notGLVars == <<sceneVars, vboVars, initVars, drawVars, plotVars, camVars,
               mouseVars,
        visVars>>
notDrawVars == <<sceneVars, vboVars, initVars, glVars, plotVars, camVars,
                 mouseVars,
        visVars>>
notPlotVars == <<sceneVars, vboVars, initVars, glVars, drawVars, camVars,
                 mouseVars,
        visVars>>
notCamVars == <<sceneVars, vboVars, initVars, glVars, drawVars, plotVars,
                mouseVars,
        visVars>>

vars == <<sceneVars, vboVars, viewVars>>

NoOp == [op |-> "init", item |-> None, target |-> None, flag |-> FALSE,
         raised |-> FALSE, cands |-> <<>>, pre_items |-> <<>>,
         pre_selected |-> {}, pre_children |-> <<>>, recursive |-> FALSE]

\* ------------------------------------------------------- sequence helpers
Range(s) == {s[k] : k \in 1..Len(s)}

InSeq(x, s) == \E k \in 1..Len(s) : s[k] = x

\* list.remove(x): drops the first occurrence (the caller checks InSeq)
RemoveFirst(s, x) ==
    LET k == CHOOSE j \in 1..Len(s) : s[j] = x /\ \A m \in 1..(j-1) : s[m] # x
    IN  SubSeq(s, 1, k-1) \o SubSeq(s, k+1, Len(s))

RECURSIVE InsertByKey(_, _, _)
\* insert x after every element whose key is <= key[x] (stable)
InsertByKey(s, x, key) ==
    IF s = <<>> THEN <<x>>
    ELSE IF key[Head(s)] <= key[x]
         THEN <<Head(s)>> \o InsertByKey(Tail(s), x, key)
         ELSE <<x>> \o s

RECURSIVE SortByKey(_, _)
\* list.sort(key=...): a stable sort, here insertion sort from the right
SortByKey(s, key) ==
    IF s = <<>> THEN <<>>
    ELSE LET rest == SortByKey(SubSeq(s, 1, Len(s)-1), key)
         IN  InsertByKey(rest, s[Len(s)], key)

\* sequences of distinct elements of S, of length 0..n
RECURSIVE DistinctSeqs(_, _)
DistinctSeqs(S, n) ==
    IF n = 0 THEN {<<>>}
    ELSE LET shorter == DistinctSeqs(S, n-1)
         IN  shorter \cup
             UNION {{Append(s, x) : x \in S \ Range(s)} : s \in shorter}

\* ------------------------------------------------------ PickColorManager
\* `item in self.values()`
InValues(reg, i) == \E c \in Colors : reg[c] = i

\* new_item: one draw, one re-draw if the first is taken, then registration
\* whatever the second draw is.  c1, c2 are the two random draws.
new_item_color(reg, c1, c2) == IF reg[c1] # None THEN c2 ELSE c1

\* pickColor() without the step to the parent: always the own color
pickColor_own(i, sel, par) == IF ~sel[i] THEN 0 ELSE item_pickColor[i]

RECURSIVE pickColor(_, _, _)
\* GLGraphicsItem.pickColor(parent=True)
pickColor(i, sel, par) ==
    IF ~sel[i] THEN 0
    ELSE IF par[i] # None /\ sel[par[i]] THEN pickColor(par[i], sel, par)
    ELSE item_pickColor[i]

\* QObject.parent() of an item: GLGraphicsItem.__init__ calls
\* super().__init__() without a parent and nothing calls setParent, so it is
\* None whatever __parent is
QObjectParent(i) == None

RECURSIVE item_selected(_)
\* GLGraphicsItem.selected(): the own flag of a selectable item, else the
\* answer of self.parent(), the QObject parent
item_selected(i) ==
    IF selectable[i] THEN selected[i]
    ELSE QObjectParent(i) # None /\ item_selected(QObjectParent(i))

\* ------------------------------------------------------------- hierarchy
RECURSIVE IsAncestor(_, _, _)
\* a is c or an ancestor of c, following __parent
IsAncestor(a, c, par) ==
    IF c = None THEN FALSE
    ELSE IF a = c THEN TRUE
    ELSE IsAncestor(a, par[c], par)

\* addChildItem(self = p, item = c): the new (parent, children, raised)
addChildItem(p, c, par, ch, key) ==
    IF InSeq(c, ch[p]) THEN [parent |-> par, children |-> ch, raised |-> FALSE]
    ELSE LET ch1 == [ch EXCEPT ![p] = SortByKey(Append(ch[p], c), key)]
         IN  IF par[c] = None
             THEN [parent |-> [par EXCEPT ![c] = p], children |-> ch1,
                   raised |-> FALSE]
             ELSE IF ~InSeq(c, ch1[par[c]])
                  \* list.remove raises ValueError before __parent is set
                  THEN [parent |-> par, children |-> ch1, raised |-> TRUE]
                  ELSE [parent |-> [par EXCEPT ![c] = p],
                        children |-> [ch1 EXCEPT ![par[c]] =
                                         RemoveFirst(ch1[par[c]], c)],
                        raised |-> FALSE]

\* setDepthValue(d) on item i: the depth key is stored
setDepthValue(i, d, dv) == [dv EXCEPT ![i] = d]

\* ------------------------------------------------------------------ Init
SceneInit ==
    /\ state = [i \in Items |-> "none"]
    /\ parent = [i \in Items |-> None]
    /\ children = [i \in Items |-> <<>>]
    /\ depthValue = [i \in Items |-> 0]
    /\ selectable = [i \in Items |-> FALSE]
    /\ selected = [i \in Items |-> FALSE]
    /\ item_pickColor = [i \in Items |-> 0]
    /\ registry = [c \in Colors |-> None]
    /\ selected_items = <<>>
    /\ last = NoOp
    /\ ret = <<>>

\* --------------------------------------------------------------- actions
\* GLGraphicsItem.__init__(parentItem, depthValue, selectable)
Construct(i, p, d, s, c1, c2) ==
    /\ state[i] = "none"
    /\ \A j \in Items : j < i => state[j] # "none"
    /\ p # None => state[p] = "live"
    \* setParentItem runs while __depthValue is still 0
    /\ \E r \in {IF p = None
                 THEN [parent |-> parent, children |-> children,
                       raised |-> FALSE]
                 ELSE addChildItem(p, i, parent, children, depthValue)},
          c \in {new_item_color(registry, c1, c2)} :
           /\ parent' = r.parent
           /\ children' = r.children
           /\ depthValue' = setDepthValue(i, d, depthValue)
           /\ item_pickColor' = [item_pickColor EXCEPT ![i] = c]
           /\ registry' = [registry EXCEPT ![c] = i]
    /\ state' = [state EXCEPT ![i] = "live"]
    /\ selectable' = [selectable EXCEPT ![i] = s]
    /\ selected' = [selected EXCEPT ![i] = FALSE]
    /\ last' = [NoOp EXCEPT !.op = "construct", !.item = i, !.flag = s]
    /\ UNCHANGED <<selected_items, ret,
                   vboVars, viewVars>>

RECURSIVE setSelectableRec(_, _, _)
\* setSelectable(s, children=True) applied to the items of todo in turn,
\* depth first; st is [selectable, selected].  An item whose flag already
\* is s returns at once, so every item is changed at most once.
setSelectableRec(todo, s, st) ==
    IF todo = <<>> THEN st
    ELSE LET i == Head(todo)
         IN  IF st.selectable[i] = s
             THEN setSelectableRec(Tail(todo), s, st)
             ELSE setSelectableRec(children[i] \o Tail(todo), s,
                      [selectable |-> [st.selectable EXCEPT ![i] = s],
                       selected |-> [st.selected EXCEPT ![i] = FALSE]])

\* GLGraphicsItem.setSelectable(s, children)
setSelectable(i, s, withChildren) ==
    LET st == [selectable |-> selectable, selected |-> selected]
    IN  IF selectable[i] = s THEN st
        ELSE LET st1 == [selectable |-> [selectable EXCEPT ![i] = s],
                         selected |-> [selected EXCEPT ![i] = FALSE]]
             IN  IF withChildren
                 THEN setSelectableRec(children[i], s, st1)
                 ELSE st1

SetSelectable(i, s, withChildren) ==
    /\ state[i] = "live"
    /\ \E st \in {setSelectable(i, s, withChildren)} :
           /\ selectable' = st.selectable
           /\ selected' = st.selected
    /\ last' = [NoOp EXCEPT !.op = "setSelectable", !.item = i, !.flag = s,
                            !.recursive = withChildren]
    /\ UNCHANGED <<state, parent, children, depthValue, item_pickColor,
                   registry, selected_items, ret,
                   vboVars, viewVars>>

\* PickColorManager.del_item(item): the new registry, or a raise (Warning
\* when the item is no value of the dict, KeyError from pop when the color
\* pickColor() returns is no key)
del_item(i) ==
    LET color == pickColor(i, selectable, parent)
    IN  IF ~InValues(registry, i) \/ registry[color] = None
        THEN [registry |-> registry, raised |-> TRUE]
        ELSE [registry |-> [registry EXCEPT ![color] = None],
              raised |-> FALSE]

\* GLGraphicsItem.__del__: the new (registry, parent, children); a raise in
\* del_item or in list.remove ends the method where it stands
del(i) ==
    LET d == IF selectable[i] THEN del_item(i)
             ELSE [registry |-> registry, raised |-> FALSE]
        raised2 == ~d.raised /\ parent[i] # None /\
                   ~InSeq(i, children[parent[i]])
    IN  IF d.raised \/ raised2
        THEN [registry |-> d.registry, parent |-> parent,
              children |-> children, raised |-> TRUE]
        ELSE [registry |-> d.registry,
              parent |-> [j \in Items |->
                            IF InSeq(j, children[i]) THEN None ELSE parent[j]],
              children |-> [j \in Items |->
                            IF j = i THEN <<>>
                            ELSE IF j = parent[i]
                                 THEN RemoveFirst(children[j], i)
                                 ELSE children[j]],
              raised |-> FALSE]

Del(i) ==
    /\ state[i] = "live"
    /\ state' = [state EXCEPT ![i] = "dead"]
    /\ \E r \in {del(i)} :
           /\ registry' = r.registry
           /\ parent' = r.parent
           /\ children' = r.children
           /\ last' = [NoOp EXCEPT !.op = "del", !.item = i,
                                   !.target = parent[i],
                                   !.flag = selectable[i],
                                   !.raised = r.raised,
                                   !.pre_children = children]
    /\ UNCHANGED <<depthValue, selectable, selected, item_pickColor,
                   selected_items, ret,
                   vboVars, viewVars>>

\* AddChildItem: self.addChildItem(item) on two live items; the hierarchy
\* stays acyclic (the caller's obligation, no check in the code)
AddChildItem(p, c) ==
    /\ state[p] = "live" /\ state[c] = "live"
    /\ ~IsAncestor(c, p, parent)
    /\ \E r \in {addChildItem(p, c, parent, children, depthValue)} :
           /\ parent' = r.parent
           /\ children' = r.children
           /\ last' = [NoOp EXCEPT !.op = "addChildItem", !.item = c,
                                   !.target = p, !.raised = r.raised]
    /\ UNCHANGED <<state, depthValue, selectable, selected, item_pickColor,
                   registry, selected_items, ret,
                   vboVars, viewVars>>

RECURSIVE recursiveChildItems(_, _)
RECURSIVE recursiveChildItemsLoop(_, _, _)
\* recursiveChildItems() on item i: `items` IS the list self.__children, so
\* every extend lengthens the child list that the for loop is walking.  The
\* result is the new children map; the returned list is its entry for i.
recursiveChildItems(i, ch) == recursiveChildItemsLoop(i, 1, ch)

\* the for loop, at position k of self.__children
recursiveChildItemsLoop(i, k, ch) ==
    IF k > Len(ch[i]) THEN ch
    ELSE LET child == ch[i][k]
             ch1 == recursiveChildItems(child, ch)
         IN  recursiveChildItemsLoop(i, k + 1,
                 [ch1 EXCEPT ![i] = ch1[i] \o ch1[child]])

RECURSIVE ChildReach(_)
\* the items reached from those of S along the child lists
ChildReach(S) ==
    LET T == S \cup UNION {Range(children[j]) : j \in S}
    IN  IF T = S THEN S ELSE ChildReach(T)

\* recursiveChildItems() on item i returns: no item below i is below itself
\* (the recursion has no end otherwise)
returns(i) ==
    \A j \in ChildReach({i}) : j \notin ChildReach(Range(children[j]))

RecursiveChildItems(i) ==
    /\ state[i] = "live"
    /\ returns(i)
    /\ \E ch \in {recursiveChildItems(i, children)} :
           /\ \A j \in Items : Len(ch[j]) <= MaxChildren
           /\ children' = ch
           /\ ret' = ch[i]
    /\ last' = [NoOp EXCEPT !.op = "recursiveChildItems", !.item = i]
    /\ UNCHANGED <<state, parent, depthValue, selectable, selected,
                   item_pickColor, registry, selected_items,
                   vboVars, viewVars>>

\* the item is constructed visible
VisInit == visible = [i \in Items |-> TRUE]

\* GLGraphicsItem.childItems(): the child list itself is returned
ChildItems(i) ==
    /\ state[i] = "live"
    /\ ret' = children[i]
    /\ last' = [NoOp EXCEPT !.op = "childItems", !.item = i]
    /\ UNCHANGED <<state, parent, children, depthValue, selectable, selected,
                   item_pickColor, registry, selected_items,
                   vboVars, viewVars>>

\* GLGraphicsItem.setVisible(vis, recursive) on item i: its flag is set and,
\* when recursive, the flag of every item recursiveChildItems() returns;
\* ch is the child lists after that call
setVisible(i, vis, recursive, ch) ==
    [j \in Items |-> IF j = i \/ (recursive /\ InSeq(j, ch[i]))
                     THEN vis ELSE visible[j]]

SetVisible(i, vis, recursive) ==
    /\ state[i] = "live"
    /\ recursive => returns(i)
    /\ \E ch \in {IF recursive THEN recursiveChildItems(i, children)
                               ELSE children} :
           /\ \A j \in Items : Len(ch[j]) <= MaxChildren
           /\ children' = ch
           /\ visible' = setVisible(i, vis, recursive, ch)
    /\ last' = [NoOp EXCEPT !.op = "setVisible", !.item = i, !.flag = vis,
                            !.recursive = recursive]
    /\ UNCHANGED <<state, parent, depthValue, selectable, selected,
                   item_pickColor, registry, selected_items, ret,
                   vboVars, initVars, glVars, drawVars, plotVars, camVars,
                   mouseVars>>

RECURSIVE setSelectedRec(_, _, _)
\* setSelected(s, children=True) applied to the items of todo in turn: the
\* flag is set, then every selectable child is visited
setSelectedRec(todo, s, sel) ==
    IF todo = <<>> THEN sel
    ELSE LET i == Head(todo)
         IN  setSelectedRec(
                 SelectSeq(children[i], LAMBDA c : selectable[c]) \o Tail(todo),
                 s, [sel EXCEPT ![i] = s])

\* GLGraphicsItem.setSelected(s) on item i, from the flags sel
setSelected(i, s, sel) == setSelectedRec(<<i>>, s, sel)

\* the colors the pick pass can leave in the read-back pixels: the own
\* _pickColor of the selectable live items (GLModelItem.paint_pickMode),
\* the sentinel 0.0 filtered out
PickPixels ==
    {item_pickColor[i] : i \in {j \in Items : state[j] = "live" /\ selectable[j]}}
        \ {0}

\* what pickItems can return: for the pixels' colors, in any order and each
\* once, the items PickColorManager().get(color) yields
Candidates ==
    DistinctSeqs({registry[c] : c \in PickPixels} \ {None}, MaxItems)

RECURSIVE clearAll(_, _)
\* `for it in self.selected_items: it.setSelected(False)`
clearAll(items, sel) ==
    IF items = <<>> THEN sel
    ELSE clearAll(Tail(items), setSelected(Head(items), FALSE, sel))

RECURSIVE toggleAll(_, _)
\* the loop of the branch without Ctrl; st is [items, sel]
toggleAll(cands, st) ==
    IF cands = <<>> THEN st
    ELSE LET it == Head(cands)
         IN  toggleAll(Tail(cands),
                 IF InSeq(it, st.items)
                 THEN [items |-> RemoveFirst(st.items, it),
                       sel |-> setSelected(it, FALSE, st.sel)]
                 ELSE [items |-> Append(st.items, it),
                       sel |-> setSelected(it, TRUE, st.sel)])

RECURSIVE addAll(_, _)
\* the loop of the branch with Ctrl
addAll(cands, st) ==
    IF cands = <<>> THEN st
    ELSE LET it == Head(cands)
         IN  addAll(Tail(cands),
                 IF InSeq(it, st.items) THEN st
                 ELSE [items |-> Append(st.items, it),
                       sel |-> setSelected(it, TRUE, st.sel)])

\* the branch of mouseReleaseEvent taken when pickItems found nothing and
\* Ctrl is up, with the list left as it was
releaseEmpty_keep(items, sel) == [items |-> items, sel |-> sel]

releaseEmpty(items, sel) == [items |-> <<>>, sel |-> clearAll(items, sel)]

\* GLViewWidget.mouseReleaseEvent for the left button: new_s_items = cands,
\* ctl_down = ctl; the new [items (selected_items), sel (selected flags)]
mouseReleaseEvent(cands, ctl) ==
    LET st == [items |-> selected_items, sel |-> selected]
    IN  IF cands = <<>>
        THEN IF ctl THEN st ELSE releaseEmpty(selected_items, selected)
        ELSE IF ~ctl THEN toggleAll(cands, st)
        ELSE addAll(cands, st)

MouseRelease(cands, ctl) ==
    /\ \E st \in {mouseReleaseEvent(cands, ctl)} :
           /\ selected_items' = st.items
           /\ selected' = st.sel
    /\ last' = [NoOp EXCEPT !.op = "release", !.flag = ctl, !.cands = cands,
                            !.pre_items = selected_items,
                            !.pre_selected = {i \in Items : selected[i]}]
    /\ UNCHANGED <<state, parent, children, depthValue, selectable,
                   item_pickColor, registry, ret,
                   vboVars, viewVars>>

\* ============================================================= viewport
NoInit == [op |-> "init", item |-> None, raised |-> FALSE]

\* GLViewWidget.__init__: no item shown, the selection box constructed and
\* given the viewport (select_box.setView(self)), nothing initialized
ViewInit ==
    /\ gl_ready = FALSE
    /\ view_items = <<>>
    /\ item_view = [i \in AllItems |-> i = SelectBox]
    /\ initialized = [i \in AllItems |-> FALSE]
    /\ initCount = [i \in AllItems |-> 0]
    /\ init_last = NoInit
    /\ lights = {}

\* depthValue() of an item; the selection box keeps the default 0
viewDepth == [i \in AllItems |-> IF i = SelectBox THEN 0 ELSE depthValue[i]]

\* GLViewWidget.addItem(item): the new (items, item_view)
addItem(i, items, view) ==
    [items |-> SortByKey(Append(items, i), viewDepth),
     view |-> [view EXCEPT ![i] = TRUE]]

\* GLViewWidget.initializeGL, run once when the GL context exists: it calls
\* select_box.initializeGL() itself, then addItem(select_box)
ViewInitializeGL ==
    /\ ~gl_ready
    /\ gl_ready' = TRUE
    /\ initCount' = [initCount EXCEPT ![SelectBox] = @ + 1]
    /\ \E r \in {addItem(SelectBox, view_items, item_view)} :
           /\ view_items' = r.items
           /\ item_view' = r.view
    /\ init_last' = [NoInit EXCEPT !.op = "initializeGL", !.item = SelectBox]
    /\ UNCHANGED <<initialized, lights, notInitVars>>

AddItem(i, ls) ==
    /\ state[i] = "live"
    /\ Len(view_items) < MaxViewItems
    /\ \E r \in {addItem(i, view_items, item_view)} :
           /\ view_items' = r.items
           /\ item_view' = r.view
    /\ lights' = lights \cup ls
    /\ init_last' = [NoInit EXCEPT !.op = "addItem", !.item = i]
    /\ UNCHANGED <<gl_ready, initialized, initCount, notInitVars>>

\* GLGraphicsItem.initialize() on item i: the new (item_view, initialized,
\* initCount) or a raise (self.__parent is None and so has no view())
initialize(i) ==
    IF initialized[i]
    THEN [view |-> item_view, initialized |-> initialized,
          count |-> initCount, raised |-> FALSE]
    ELSE IF ~item_view[i] /\ (i = SelectBox \/ parent[i] = None)
    THEN [view |-> item_view, initialized |-> initialized,
          count |-> initCount, raised |-> TRUE]
    ELSE [view |-> IF item_view[i] THEN item_view
                   ELSE [item_view EXCEPT ![i] = item_view[parent[i]]],
          initialized |-> [initialized EXCEPT ![i] = TRUE],
          count |-> [initCount EXCEPT ![i] = @ + 1],
          raised |-> FALSE]

\* a call of initialize() (the first step of drawing the item) once the GL
\* context exists
Initialize(i) ==
    /\ gl_ready
    /\ i # SelectBox => state[i] = "live"
    /\ \E r \in {initialize(i)} :
           /\ item_view' = r.view
           /\ initialized' = r.initialized
           /\ initCount' = r.count
           /\ init_last' = [op |-> "initialize", item |-> i,
                            raised |-> r.raised]
    /\ UNCHANGED <<gl_ready, view_items, lights, notInitVars>>

\* ============================================================== picking
\* the OpenGL state of a normal frame: default framebuffer, full viewport,
\* background clear color, multisampling on (initializeGL), no scissor test
GLNormal == [framebuffer |-> "default", viewport |-> "full",
             clear_color |-> "bg_color", multisample |-> TRUE,
             scissor_test |-> FALSE]

NoPick == [op |-> "init", outside |-> FALSE, rect |-> <<0, 0, 0, 0>>,
           failAt |-> 0, raised |-> FALSE, found |-> FALSE, pre |-> GLNormal,
           pixels |-> <<>>, items |-> <<>>, reg |-> <<>>, args |-> <<>>]

\* the ratio pickItems renders and reads at
ratio == 2

Max(a, b) == IF a >= b THEN a ELSE b

\* GLViewWidget._normalizeRect(x_, y, w, h, ratio): <<x_, y, w, h>>
normalizeRect(x0, y0, w0, h0, r0) ==
    LET r  == IF r0 > 5 THEN 5 ELSE r0
        x1 == IF w0 < 0 THEN Max(0, x0 + w0) ELSE x0
        w1 == IF w0 < 0 THEN -w0 ELSE w0
        y1 == IF h0 < 0 THEN Max(0, y0 + h0) ELSE y0
        h1 == IF h0 < 0 THEN -h0 ELSE h0
        w2 == IF x1 + w1 > DevW THEN DevW - x1 ELSE w1
        h2 == IF y1 + h1 > DevH THEN DevH - y1 ELSE h1
        x3 == x1 \div r
        y3 == y1 \div r
        w3 == w2 \div r
        h3 == h2 \div r
        nudgeW == w3 <= 6 \div r
        nudgeH == h3 <= 6 \div r
    IN  << IF nudgeW THEN Max(0, x3 - 1) ELSE x3,
           IF nudgeH THEN Max(0, y3 - 1) ELSE y3,
           IF nudgeW THEN 3 \div r ELSE w3,
           IF nudgeH THEN 3 \div r ELSE h3 >>

\* the GL calls of pickItems in order, drawItems and glReadPixels among
\* them; step n applied to the GL state g
PickSteps == 14

pickStep(n, g) ==
    CASE n = 1  -> [g EXCEPT !.framebuffer = "pick"]
      [] n = 2  -> [g EXCEPT !.viewport = "reduced"]
      [] n = 3  -> [g EXCEPT !.clear_color = "zero"]
      [] n = 4  -> [g EXCEPT !.multisample = FALSE]
      [] n = 7  -> [g EXCEPT !.scissor_test = TRUE]
      [] n = 9  -> [g EXCEPT !.scissor_test = FALSE]
      [] n = 11 -> [g EXCEPT !.framebuffer = "default"]
      [] n = 12 -> [g EXCEPT !.clear_color = "bg_color"]
      [] n = 13 -> [g EXCEPT !.multisample = TRUE]
      [] n = 14 -> [g EXCEPT !.viewport = "full"]
      [] OTHER  -> g

RECURSIVE pickRun(_, _, _)
\* steps n.. of pickItems from GL state g; the call at step failAt raises
\* and ends the method there (failAt = 0: no call raises)
pickRun(n, failAt, g) ==
    IF n > PickSteps \/ n = failAt THEN g
    ELSE pickRun(n + 1, failAt, pickStep(n, g))

\* the pixels (reduced resolution, origin top left) the scissor box and
\* glReadPixels cover for the normalized rectangle rc
ReadPixels(rc) ==
    {<<px, py>> \in (rc[1]..(rc[1] + rc[3] - 1)) \X (rc[2]..(rc[2] + rc[4] - 1)) :
        TRUE}

\* the pixels of the reduced viewport glViewport(0, 0, W // ratio, H // ratio)
ViewportPixels ==
    (0..((DevW \div ratio) - 1)) \X (0..((DevH \div ratio) - 1))

\* GLViewWidget.pickItems(x_, y_, w_, h_) in a scene whose items cover the
\* whole viewport (full) or nothing of it: the GL state afterwards, and
\* whether the list returned has an item
pickItems(x0, y0, w0, h0, failAt, full) ==
    LET rc == normalizeRect(x0, y0, w0, h0, ratio)
    IN  [rect |-> rc,
         gl |-> pickRun(1, failAt, gl_state),
         raised |-> failAt # 0,
         found |-> failAt = 0 /\ full /\
                   ReadPixels(rc) \cap ViewportPixels # {}]

\* the rectangle (x0, y0, w0, h0), in either drag direction, shares no
\* point with the viewport [0, DevW) x [0, DevH)
Outside(x0, y0, w0, h0) ==
    LET xa == IF w0 < 0 THEN x0 + w0 ELSE x0
        xb == IF w0 < 0 THEN x0 ELSE x0 + w0
        ya == IF h0 < 0 THEN y0 + h0 ELSE y0
        yb == IF h0 < 0 THEN y0 ELSE y0 + h0
    IN  xa >= DevW \/ ya >= DevH \/ xb < 0 \/ yb < 0

Coords(dev) == (-Margin)..(dev + Margin)

PickItems(x0, y0, w0, h0, failAt, full) ==
    /\ npicks < MaxPicks
    /\ npicks' = npicks + 1
    /\ \E r \in {pickItems(x0, y0, w0, h0, failAt, full)} :
           /\ gl_state' = r.gl
           /\ pick_last' = [op |-> "pickItems",
                            outside |-> Outside(x0, y0, w0, h0),
                            rect |-> r.rect, failAt |-> failAt,
                            raised |-> r.raised, found |-> r.found,
                            pre |-> gl_state, pixels |-> <<>>,
                            items |-> <<>>, reg |-> <<>>, args |-> <<>>]
    /\ UNCHANGED notGLVars

\* `pick_data[pick_data != 0.0]`
nonZero(pixels) == SelectSeq(pixels, LAMBDA c : c # 0)

\* no color counts as seen
seen_never(id, id_set) == FALSE

\* `id_ in id_set`
seen(id, id_set) == InSeq(id, id_set)

RECURSIVE collectItems(_, _, _, _)
\* the loop `for id_ in pick_data`: id_set are the colors met so far, acc
\* the list built; PickColorManager().get(id_) is None for a color that
\* is no key
collectItems(data, id_set, acc, reg) ==
    IF data = <<>> THEN acc
    ELSE LET id == Head(data)
         IN  IF seen(id, id_set)
             THEN collectItems(Tail(data), id_set, acc, reg)
             ELSE collectItems(Tail(data), Append(id_set, id),
                      IF reg[id] # None THEN Append(acc, reg[id]) ELSE acc,
                      reg)

\* the list pickItems builds from the pixels read back
readItems(pixels, reg) == collectItems(nonZero(pixels), <<>>, <<>>, reg)

RECURSIVE SeqsUpTo(_, _)
\* the sequences over S of length 0..n
SeqsUpTo(S, n) ==
    IF n = 0 THEN {<<>>}
    ELSE LET shorter == SeqsUpTo(S, n - 1)
         IN  shorter \cup {Append(q, x) : q \in shorter, x \in S}

\* a pickItems call whose GL pass and read-back succeed and yield pixels:
\* the GL state is restored, the list is built from the pixels
PickRead(pixels) ==
    /\ npicks < MaxPicks
    /\ npicks' = npicks + 1
    /\ gl_state' = pickRun(1, 0, gl_state)
    /\ pick_last' = [NoPick EXCEPT !.op = "pickItems", !.pre = gl_state,
                                   !.pixels = pixels, !.reg = registry,
                                   !.items = readItems(pixels, registry)]
    /\ UNCHANGED notGLVars

\* one call _normalizeRect(x0, y0, w0, h0, r0)
NormalizeRect(x0, y0, w0, h0, r0) ==
    /\ npicks < MaxPicks
    /\ npicks' = npicks + 1
    /\ pick_last' = [NoPick EXCEPT !.op = "normalizeRect",
                                   !.args = <<x0, y0, w0, h0, r0>>,
                                   !.rect = normalizeRect(x0, y0, w0, h0, r0)]
    /\ UNCHANGED <<gl_state, notGLVars>>

PickInit ==
    /\ gl_state = GLNormal
    /\ pick_last = NoPick
    /\ npicks = 0

\* ============================================================== drawing
NoDraw == [op |-> "init", pickMode |-> FALSE, failItems |-> {},
           failLights |-> {}, order |-> <<>>, drawnItems |-> {},
           drawnLights |-> {}, raised |-> FALSE]

DrawInit == draw_last = NoDraw

RECURSIVE drawLights(_, _, _)
\* the loop "for light in self.lights: light.paint(...)" over the lights in
\* iteration order, from position k: the lights painted, and whether a
\* paint raised and ended the loop
drawLights(order, k, failLights) ==
    IF k > Len(order) THEN [drawn |-> {}, raised |-> FALSE]
    ELSE IF order[k] \in failLights THEN [drawn |-> {}, raised |-> TRUE]
    ELSE LET rest == drawLights(order, k + 1, failLights)
         IN  [drawn |-> {order[k]} \cup rest.drawn, raised |-> rest.raised]

\* GLViewWidget.drawItems(pickMode) when drawing the items of failItems and
\* the lights of failLights raises; order is the iteration order of the set
\* self.lights
drawItems(pickMode, failItems, failLights, order) ==
    IF pickMode
    THEN [drawnItems |-> Range(view_items) \ failItems,
          drawnLights |-> {}, raised |-> FALSE]
    ELSE LET l == drawLights(order, 1, failLights)
         IN  [drawnItems |-> Range(view_items) \ failItems,
              drawnLights |-> l.drawn, raised |-> l.raised]

DrawItems(pickMode, failItems, failLights, order) ==
    /\ failItems \subseteq Range(view_items)
    /\ failLights \subseteq lights
    /\ Len(order) = Cardinality(lights)
    /\ Range(order) = lights
    /\ \E r \in {drawItems(pickMode, failItems, failLights, order)} :
           draw_last' = [op |-> "drawItems", pickMode |-> pickMode,
                         failItems |-> failItems, failLights |-> failLights,
                         order |-> order, drawnItems |-> r.drawnItems,
                         drawnLights |-> r.drawnLights, raised |-> r.raised]
    /\ UNCHANGED notDrawVars

\* `length > self.block_lens[id]`: the block must grow
grows_ge(length, allocated) == length >= allocated

grows(length, allocated) == length > allocated

\* ================================================================ plots
\* the two blocks of a plot item's VBO([None, None], [3, 3]): positions, colors
PlotBlocks == 0..1

NoPlot == [kind |-> "none", num |-> 0, pos |-> <<>>, color |-> <<>>,
           gl_update_flag |-> FALSE, vert_update_flag |-> FALSE,
           color_update_flag |-> FALSE, lastop |-> "none"]

NoGPU == [lens |-> [b \in PlotBlocks |-> 0], data |-> [b \in PlotBlocks |-> <<>>],
          updates |-> 0, realloc |-> FALSE]

NoPlotCall == [op |-> "init", prev |-> "none", updates |-> 0,
               realloc |-> FALSE, pre |-> NoGPU.data]

PlotInit ==
    /\ plot = NoPlot
    /\ gpu = NoGPU
    /\ plot_last = NoPlotCall

\* an array argument: length -1 is None, else length rows filled from v
Arg(length, v) == IF length < 0 THEN <<>> ELSE [k \in 1..length |-> (v + k) % (MaxByte + 1)]

\* np.tile(color, (num, 1)) of a single color
Tile(color, num) == [k \in 1..num |-> color[1]]

\* GLScatterPlotItem.setData(pos, color, size)
scatterSetData(it, posLen, colLen, v) ==
    LET num == IF posLen >= 0 THEN posLen ELSE it.num
        col == Arg(colLen, v)
    IN  [it EXCEPT !.pos = IF posLen >= 0 THEN Arg(posLen, v) ELSE @,
                   !.num = num,
                   !.color = IF colLen < 0 THEN @
                             ELSE IF Len(col) = 1 /\ num > 1 THEN Tile(col, num)
                             ELSE col,
                   !.gl_update_flag = TRUE]

\* GLLinePlotItem.setData(pos, color, opacity)
lineSetData(it, posLen, colLen, v) ==
    LET num == IF posLen >= 0 THEN posLen ELSE it.num
        col == IF colLen >= 0 THEN Arg(colLen, v) ELSE it.color
    IN  [it EXCEPT !.pos = IF posLen >= 0 THEN Arg(posLen, v) ELSE @,
                   !.num = num,
                   !.vert_update_flag = @ \/ posLen >= 0,
                   !.color = IF Len(col) = 1 /\ num > 1 THEN Tile(col, num)
                             ELSE col,
                   !.color_update_flag = @ \/ colLen >= 0]

\* VBO.updateData([b], [d]) on the plot item's VBO g: the block is
\* reallocated when d is longer than what is allocated, then d is loaded
upload(g, b, d) ==
    [lens |-> IF grows(Len(d), g.lens[b]) THEN [g.lens EXCEPT ![b] = Len(d)]
              ELSE g.lens,
     data |-> [g.data EXCEPT ![b] = d],
     updates |-> g.updates + 1,
     realloc |-> g.realloc \/ grows(Len(d), g.lens[b])]

\* updateVBO leaving the flag as it is
updateVBO_dirty(it, g) ==
    IF ~it.gl_update_flag THEN [it |-> it, g |-> g]
    ELSE [it |-> it,
          g |-> [upload(upload(g, 0, it.pos), 1, it.color)
                    EXCEPT !.updates = g.updates + 1]]

\* GLScatterPlotItem.updateVBO(): one updateData([0, 1], [pos, color])
updateVBO(it, g) ==
    IF ~it.gl_update_flag THEN [it |-> it, g |-> g]
    ELSE [it |-> [it EXCEPT !.gl_update_flag = FALSE],
          g |-> [upload(upload(g, 0, it.pos), 1, it.color)
                    EXCEPT !.updates = g.updates + 1]]

\* GLLinePlotItem.updateGL(): updateData([0], ..) and updateData([1], ..)
updateGL(it, g) ==
    IF ~it.vert_update_flag /\ ~it.color_update_flag THEN [it |-> it, g |-> g]
    ELSE LET g1 == IF it.vert_update_flag THEN upload(g, 0, it.pos) ELSE g
             g2 == IF it.color_update_flag THEN upload(g1, 1, it.color) ELSE g1
         IN  [it |-> [it EXCEPT !.vert_update_flag = FALSE,
                                !.color_update_flag = FALSE],
              g |-> g2]

\* paint() that returns normally: nothing for an item without points, else
\* the buffer update and the draw call
paint(it, g) ==
    IF it.num = 0 THEN [it |-> it, g |-> g, drew |-> FALSE]
    ELSE LET r == IF it.kind = "scatter" THEN updateVBO(it, g)
                  ELSE updateGL(it, g)
         IN  [it |-> r.it, g |-> r.g, drew |-> TRUE]

PlotKinds == {"scatter", "line"}

\* the constructor: the fields, then setData(pos, color)
PlotConstruct(kind, posLen, colLen, v) ==
    /\ plot.kind = "none"
    /\ plot' = [(IF kind = "scatter"
                 THEN scatterSetData([NoPlot EXCEPT !.kind = kind], posLen, colLen, v)
                 ELSE lineSetData([NoPlot EXCEPT !.kind = kind], posLen, colLen, v))
                   EXCEPT !.lastop = "setData"]
    /\ plot_last' = [NoPlotCall EXCEPT !.op = "construct"]
    /\ UNCHANGED <<gpu, notPlotVars>>

PlotSetData(posLen, colLen, v) ==
    /\ plot.kind # "none"
    /\ plot' = [(IF plot.kind = "scatter"
                 THEN scatterSetData(plot, posLen, colLen, v)
                 ELSE lineSetData(plot, posLen, colLen, v))
                   EXCEPT !.lastop = "setData"]
    /\ plot_last' = [NoPlotCall EXCEPT !.op = "setData", !.prev = plot.lastop,
                                       !.pre = gpu.data]
    /\ UNCHANGED <<gpu, notPlotVars>>

PlotPaint ==
    /\ plot.kind # "none"
    /\ \E r \in {paint(plot, [gpu EXCEPT !.updates = 0, !.realloc = FALSE])} :
           /\ plot' = [r.it EXCEPT !.lastop = "paint"]
           /\ gpu' = r.g
           /\ plot_last' = [op |-> "paint", prev |-> plot.lastop,
                            updates |-> r.g.updates, realloc |-> r.g.realloc,
                            pre |-> gpu.data]
    /\ UNCHANGED notPlotVars

\* =============================================================== camera
\* distances are fixed-point numbers, in hundredths
\* cam_position = Vector3(0., 0., 10.)
StartZ == 1000

\* `if self.pos.z < 0.1: self.pos.z = 0.1`
FloorZ == 10

\* angleDelta of one wheel notch
Notch == 120

\* 0.999 ** 120 and 0.999 ** -120, in thousandths
ZoomIn == 887
ZoomOut == 1128

CamInit ==
    /\ cam_z = StartZ
    /\ cam_press_z = StartZ

\* pos.z * 0.999 ** delta for delta of one notch either way
zoom(z, delta) ==
    IF delta > 0 THEN (z * ZoomIn) \div 1000 ELSE (z * ZoomOut) \div 1000

\* GLViewWidget.wheelEvent(ev): with Control the field of view changes,
\* else pos.z is scaled
wheelEvent(z, delta, ctrl) == IF ctrl THEN z ELSE zoom(z, delta)

WheelEvent(delta, ctrl) ==
    /\ wheelEvent(cam_z, delta, ctrl) <= MaxZ
    /\ cam_z' = wheelEvent(cam_z, delta, ctrl)
    /\ UNCHANGED <<cam_press_z, notCamVars>>

\* GLViewWidget.mousePressEvent: cam_press_pos = camera.pos
MousePress ==
    /\ cam_press_z' = cam_z
    /\ UNCHANGED <<cam_z, notCamVars>>

\* Camera.pan(dx, dy, dz, base): pos = base + (.., .., dz * scale), then the
\* floor; d is dz * scale
pan(base_z, d) == Max(base_z + d, FloorZ)

\* a pan from the current position or, with Shift held, from the position
\* at the mouse press
Pan(shift, d) ==
    /\ pan(IF shift THEN cam_press_z ELSE cam_z, d) <= MaxZ
    /\ cam_z' = pan(IF shift THEN cam_press_z ELSE cam_z, d)
    /\ UNCHANGED <<cam_press_z, notCamVars>>

\* ================================================================== mouse
\* cursor positions: QPoint(x, y); one unit of cursor travel is a quarter
\* turn of orbit
MousePos == (0..MaxMouse) \X (0..MaxMouse)

Buttons == {"left", "middle", "right"}

\* QPoint(): the null point
NullPoint == <<0, 0>>

Abs(n) == IF n < 0 THEN -n ELSE n

\* orientations are rotation matrices; the camera starts with yaw = pitch =
\* roll = 0
Identity == <<<<1, 0, 0>>, <<0, 1, 0>>, <<0, 0, 1>>>>

\* Quaternion.__mul__: the composition of two rotations
MatMul(a, b) ==
    LET e(i, j) == a[i][1] * b[1][j] + a[i][2] * b[2][j] + a[i][3] * b[3][j]
    IN  <<<<e(1, 1), e(1, 2), e(1, 3)>>,
          <<e(2, 1), e(2, 2), e(2, 3)>>,
          <<e(3, 1), e(3, 2), e(3, 3)>>>>

\* a quarter turn about the x axis (pitch) and about the y axis (yaw)
QuarterX == <<<<1, 0, 0>>, <<0, 0, -1>>, <<0, 1, 0>>>>
QuarterY == <<<<0, 0, 1>>, <<0, 1, 0>>, <<-1, 0, 0>>>>

RECURSIVE Turns(_, _)
\* k quarter turns of the rotation m
Turns(m, k) == IF k % 4 = 0 THEN Identity ELSE MatMul(m, Turns(m, (k % 4) - 1))

\* Quaternion.fromEulerAngles(pitch, yaw, roll) with roll = 0: the pitch
\* about x is applied first, then the yaw about y
fromEulerAngles(pitch, yaw) == MatMul(Turns(QuarterY, yaw), Turns(QuarterX, pitch))

\* Camera.orbit(yaw, pitch, base=base): quat = q * base
orbit(yaw, pitch, base) == MatMul(fromEulerAngles(pitch, yaw), base)

NoMouse == [op |-> "init", button |-> None, pos |-> NullPoint,
            shift |-> FALSE, orbit |-> FALSE, resolved |-> FALSE,
            start |-> NullPoint]

MouseInit ==
    /\ buttons = {}
    /\ press_pos = None
    /\ last_pos = None
    /\ cam_quat = Identity
    /\ cam_press_quat = None
    /\ sel_start = NullPoint
    /\ sel_end = NullPoint
    /\ sel_visible = FALSE
    /\ left_press_pos = None
    /\ mouse_last = NoMouse

\* GLViewWidget.mousePressEvent(ev): button b goes down at lpos; the select
\* box start is set when the left button is the only one held
MousePressEvent(b, lpos) ==
    /\ b \notin buttons
    /\ buttons' = buttons \cup {b}
    /\ press_pos' = lpos
    /\ last_pos' = lpos
    /\ cam_press_quat' = cam_quat
    /\ cam_press_z' = cam_z
    /\ sel_start' = IF buttons' = {"left"} THEN lpos ELSE sel_start
    /\ left_press_pos' = IF b = "left" THEN lpos ELSE left_press_pos
    /\ mouse_last' = [NoMouse EXCEPT !.op = "press", !.button = b,
                                     !.pos = lpos]
    /\ UNCHANGED <<cam_quat, cam_z, sel_end, sel_visible,
                   sceneVars, vboVars, initVars, glVars, drawVars, plotVars,
                   visVars>>

\* the displacement mouseMoveEvent works with: since the last event or,
\* with Shift, since the press and locked to its larger axis
moveDiff(lpos, shift) ==
    IF shift
    THEN LET dx == lpos[1] - press_pos[1]
             dy == lpos[2] - press_pos[2]
         IN  IF Abs(dx) > Abs(dy) THEN <<dx, 0>> ELSE <<0, dy>>
    ELSE <<lpos[1] - last_pos[1], lpos[2] - last_pos[2]>>

\* the orientation mouseMoveEvent orbits from: the camera's current one or,
\* with Shift, the one captured at the press
moveBase(shift) == IF shift THEN cam_press_quat ELSE cam_quat

\* GLViewWidget.mouseMoveEvent(ev) without Control and Alt: the cursor is at
\* lpos with some button held; right alone orbits, middle alone pans, left
\* alone tracks the select box end
MouseMoveEvent(lpos, shift) ==
    /\ buttons # {}
    /\ last_pos' = lpos
    /\ \E diff \in {moveDiff(lpos, shift)} :
        /\ cam_quat' = IF buttons = {"right"}
                       THEN orbit(diff[1], diff[2], moveBase(shift))
                       ELSE cam_quat
        /\ cam_z' = IF buttons = {"middle"}
                    THEN pan(IF shift THEN cam_press_z ELSE cam_z, 0)
                    ELSE cam_z
    /\ sel_visible' = IF buttons = {"left"} THEN TRUE ELSE sel_visible
    /\ sel_end' = IF buttons = {"left"} THEN lpos ELSE sel_end
    /\ mouse_last' = [NoMouse EXCEPT !.op = "move", !.pos = lpos,
                                     !.shift = shift,
                                     !.orbit = (buttons = {"right"})]
    /\ UNCHANGED <<buttons, press_pos, cam_press_quat, cam_press_z, sel_start,
                   left_press_pos,
                   sceneVars, vboVars, initVars, glVars, drawVars, plotVars,
                   visVars>>

\* GLViewWidget.mouseReleaseEvent(ev): button b goes up at lpos; the left
\* button resolves the rectangle from the select box start to lpos, cands
\* being what get_selected_item() found in it
MouseReleaseEvent(b, lpos, cands, ctl) ==
    /\ b \in buttons
    /\ buttons' = buttons \ {b}
    /\ sel_end' = lpos
    /\ IF b = "left"
       THEN /\ sel_visible' = FALSE
            /\ \E st \in {mouseReleaseEvent(cands, ctl)} :
                   /\ selected_items' = st.items
                   /\ selected' = st.sel
            /\ last' = [NoOp EXCEPT !.op = "release", !.flag = ctl,
                                    !.cands = cands,
                                    !.pre_items = selected_items,
                                    !.pre_selected = {i \in Items : selected[i]}]
       ELSE UNCHANGED <<sel_visible, selected_items, selected, last>>
    /\ mouse_last' = [NoMouse EXCEPT !.op = "release", !.button = b,
                                     !.pos = lpos,
                                     !.resolved = (b = "left"),
                                     !.start = sel_start]
    /\ UNCHANGED <<press_pos, last_pos, cam_quat, cam_press_quat, sel_start,
                   left_press_pos, camVars,
                   state, parent, children, depthValue, selectable,
                   item_pickColor, registry, ret,
                   vboVars, initVars, glVars, drawVars, plotVars, visVars>>

\* ================================================================ buffers
RECURSIVE SumUpTo(_, _)
\* sum of lens[0..n-1]
SumUpTo(lens, n) == IF n = 0 THEN 0 ELSE SumUpTo(lens, n-1) + lens[n-1]

\* [0] + np.cumsum(block_lens).tolist()[:-1]
CumOffsets(lens) == [b \in Blocks |-> SumUpTo(lens, b)]

\* sum(block_lens)
SumLens(lens) == SumUpTo(lens, NBlocks)

\* offsets kept although a block grew
newOffsets_stale(extend, lens) == block_offsets

\* the offsets after the first loop: recomputed only on extension
newOffsets(extend, lens) ==
    IF extend THEN [b \in Blocks |-> SumUpTo(lens, b)] ELSE block_offsets

RECURSIVE setBlockLoop(_, _, _, _)
\* the first loop of setBlock over zip(ids, blocks), from position k;
\* acc is [ptr, lens, used, keep, extend]
setBlockLoop(k, ids, lengths, acc) ==
    IF k > Len(ids) THEN acc
    ELSE LET id == ids[k]
             length == lengths[k]
             t == block_offsets[id] - acc.ptr
             grow == grows(length, acc.lens[id])
         IN  setBlockLoop(k + 1, ids, lengths,
                 [ptr |-> block_offsets[id] + acc.lens[id],
                  lens |-> IF grow THEN [acc.lens EXCEPT ![id] = length]
                           ELSE acc.lens,
                  used |-> [acc.used EXCEPT ![id] = length],
                  keep |-> IF t > 0 THEN Append(acc.keep, <<acc.ptr, t, id>>)
                           ELSE acc.keep,
                  extend |-> acc.extend \/ grow])

\* MemoryBlock.setBlock(ids, blocks): the new fields and the returned
\* (copy_blocks, keep_blocks, extend).  A keep block is
\* <<read offset, size, write offset>> (the third entry is the block id,
\* or -1, when there is no extension).
setBlock(ids, lengths) ==
    LET acc == setBlockLoop(1, ids, lengths,
                   [ptr |-> 0, lens |-> block_lens, used |-> block_used,
                    keep |-> <<>>, extend |-> FALSE])
        keep1 == IF acc.ptr < sum_lens
                 THEN Append(acc.keep, <<acc.ptr, sum_lens - acc.ptr, -1>>)
                 ELSE acc.keep
        offs == newOffsets(acc.extend, acc.lens)
        total == IF acc.extend THEN SumLens(acc.lens) ELSE sum_lens
        keep2 == IF acc.extend
                 THEN [n \in 1..Len(keep1) |->
                         LET kb == keep1[n]
                             end == IF kb[3] # -1 THEN offs[kb[3]] ELSE total
                         IN  <<kb[1], kb[2], end - kb[2]>>]
                 ELSE keep1
    IN  [lens |-> acc.lens, used |-> acc.used, offsets |-> offs,
         sum |-> total,
         copy_blocks |-> [n \in 1..Len(ids) |-> <<offs[ids[n]], lengths[n]>>],
         keep_blocks |-> keep2, extend |-> acc.extend]

\* glCopyBufferSubData / glBufferSubData: write src[1..size] at byte offset
\* `offset` of the store (byte k of a store is its element k + 1)
WriteAt(store, offset, size, src) ==
    SubSeq(store, 1, offset) \o SubSeq(src, 1, size)
        \o SubSeq(store, offset + size + 1, Len(store))

RECURSIVE copyKeeps(_, _, _, _)
\* the loop over keep_blocks of updateData: old store -> new store.  A range
\* outside the store it addresses makes glCopyBufferSubData raise
\* (GL_INVALID_VALUE), which ends updateData.
copyKeeps(n, keeps, old, new) ==
    IF n > Len(keeps) THEN [store |-> new, raised |-> FALSE]
    ELSE LET kb == keeps[n]
         IN  IF kb[1] < 0 \/ kb[1] + kb[2] > Len(old) \/
                kb[3] < 0 \/ kb[3] + kb[2] > Len(new)
             THEN [store |-> new, raised |-> TRUE]
             ELSE copyKeeps(n + 1, keeps, old,
                      WriteAt(new, kb[3], kb[2],
                              SubSeq(old, kb[1] + 1, kb[1] + kb[2])))

RECURSIVE loadSubDatas(_, _, _, _, _, _)
\* VBO._loadSubDatas(block_id, data): glBufferSubData(offset, used, da)
loadSubDatas(n, ids, data, offs, used, store) ==
    IF n > Len(ids) THEN store
    ELSE loadSubDatas(n + 1, ids, data, offs, used,
             WriteAt(store, offs[ids[n]], used[ids[n]], data[n]))

\* the array of a block: byte k is (v + k) mod the number of byte values
Pattern(v, length) == [k \in 1..length |-> (v + k) % (MaxByte + 1)]

\* the bytes of block b in a store laid out by offs / lens
BlockBytes(store, offs, lens, b) ==
    SubSeq(store, offs[b] + 1, offs[b] + lens[b])

NoCall == [op |-> "init", ncalls |-> 0, ids |-> <<>>, fits |-> TRUE,
           extend |-> FALSE, raised |-> FALSE, intact |-> {},
           layout_same |-> TRUE]

RECURSIVE InitialStore(_, _)
\* the store after the first updateData(range(len(data)), data): the arrays
\* of blocks 0..n-1 one after the other, block b holding Pattern(b, ..)
InitialStore(lens, n) ==
    IF n = 0 THEN <<>>
    ELSE InitialStore(lens, n - 1)
            \o SubSeq(Pattern((n - 1) % (MaxByte + 1), lens[n - 1]),
                      1, lens[n - 1])

\* VBO.__init__(data, size): MemoryBlock(data), glBufferData(nbytes, None),
\* updateData(range(len(data)), data); an entry of data that is None has
\* length 0.
VBOInit ==
    \E lens \in [Blocks -> Lengths] :
        /\ block_lens = lens
        /\ block_used = lens
        /\ block_offsets = CumOffsets(lens)
        /\ sum_lens = SumLens(lens)
        /\ buf = InitialStore(lens, NBlocks)
        /\ vbo_last = NoCall

\* a VBO built from blocks that are all None: nothing allocated
VBOEmpty ==
    /\ block_lens = [b \in Blocks |-> 0]
    /\ block_used = [b \in Blocks |-> 0]
    /\ block_offsets = [b \in Blocks |-> 0]
    /\ sum_lens = 0
    /\ buf = <<>>
    /\ vbo_last = NoCall

\* VBO.updateData(block_id, data), data[n] being an array of lengths[n]
\* bytes; f fills the store that glBufferData(.., None) allocates, whose
\* contents OpenGL does not define.
updateData(ids, lengths, data, f) ==
    LET sb == setBlock(ids, lengths)
        cp == IF sb.extend
              THEN copyKeeps(1, sb.keep_blocks, buf, [k \in 1..sb.sum |-> f])
              ELSE [store |-> buf, raised |-> FALSE]
        store2 == IF sb.sum = 0 \/ cp.raised THEN cp.store
                  ELSE loadSubDatas(1, ids, data, sb.offsets, sb.used, cp.store)
    IN  [sb |-> sb, store |-> store2, raised |-> cp.raised]

\* the id lists of a call: any non-empty list of distinct block ids, in any
\* order
IdLists == DistinctSeqs(Blocks, NBlocks) \ {<<>>}

\* the blocks that hold in (store2, offs2, lens2) the bytes they held in
\* (store1, offs1, lens1)
SameBytes(store1, offs1, lens1, store2, offs2, lens2) ==
    {b \in Blocks : BlockBytes(store1, offs1, lens1, b) =
                    BlockBytes(store2, offs2, lens2, b)}

\* one call of updateData; the arrays written change with every call, the
\* fresh store is filled with f
UpdateData(ids, lengths, f) ==
    /\ vbo_last.ncalls < MaxCalls
    /\ \E r \in {updateData(ids, lengths,
                     [n \in 1..Len(ids) |->
                        Pattern((vbo_last.ncalls + n) % (MaxByte + 1),
                                lengths[n])],
                     f)} :
        /\ f # 0 => r.sb.extend
        /\ block_lens' = r.sb.lens
        /\ block_used' = r.sb.used
        /\ block_offsets' = r.sb.offsets
        /\ sum_lens' = r.sb.sum
        /\ buf' = r.store
        /\ vbo_last' = [op |-> "updateData", ncalls |-> vbo_last.ncalls + 1,
                        ids |-> ids,
                        fits |-> \A n \in 1..Len(ids) :
                                    lengths[n] <= block_lens[ids[n]],
                        extend |-> r.sb.extend, raised |-> r.raised,
                        intact |-> SameBytes(buf, block_offsets, block_lens,
                                       r.store, r.sb.offsets, r.sb.lens),
                        layout_same |-> (r.sb.offsets = block_offsets /\
                                         r.sb.lens = block_lens)]
    /\ UNCHANGED <<sceneVars, viewVars>>

VBONext ==
    \E ids \in IdLists :
    \E lengths \in [1..Len(ids) -> Lengths], f \in Bytes :
        UpdateData(ids, lengths, f)

\* the VBO constructed, no item yet
InitVBO ==
    /\ SceneInit
    /\ ViewInit
    /\ PickInit
    /\ DrawInit
    /\ PlotInit
    /\ CamInit
    /\ MouseInit
    /\ VisInit
    /\ VBOInit

SpecVBO == InitVBO /\ [][VBONext]_vars

\* a Python list or array index: negative ids count from the end
PyIndex(id) == IF id < 0 THEN id + NBlocks ELSE id

\* MemoryBlock.setBlock([id], [length]) for any integer id: IndexError at
\* the first `self.block_offsets[id]` when the index is out of range, else
\* the sizes of the block the index resolves to are set
setBlockAt(id, length) ==
    IF PyIndex(id) \notin Blocks
    THEN [raised |-> TRUE, lens |-> block_lens, used |-> block_used,
          offsets |-> block_offsets, sum |-> sum_lens, extend |-> FALSE]
    ELSE LET sb == setBlock(<<PyIndex(id)>>, <<length>>)
         IN  [raised |-> FALSE, lens |-> sb.lens, used |-> sb.used,
              offsets |-> sb.offsets, sum |-> sb.sum, extend |-> sb.extend]

\* the ids of a call: the block ids and the integers next to them
AnyIds == (-NBlocks - 1)..NBlocks

\* one call of setBlock; intact are the blocks whose sizes stay as they were
SetBlock(id, length) ==
    /\ vbo_last.ncalls < MaxCalls
    /\ \E r \in {setBlockAt(id, length)} :
        /\ block_lens' = r.lens
        /\ block_used' = r.used
        /\ block_offsets' = r.offsets
        /\ sum_lens' = r.sum
        /\ vbo_last' = [op |-> "setBlock", ncalls |-> vbo_last.ncalls + 1,
                        ids |-> <<id>>,
                        fits |-> ~r.extend,
                        extend |-> r.extend, raised |-> r.raised,
                        intact |-> {b \in Blocks : r.lens[b] = block_lens[b] /\
                                                   r.used[b] = block_used[b]},
                        layout_same |-> (r.offsets = block_offsets /\
                                         r.lens = block_lens)]
    /\ UNCHANGED <<buf, sceneVars, viewVars>>

BlockNext ==
    \E id \in AnyIds, length \in Lengths : SetBlock(id, length)

SpecBlock == InitVBO /\ [][BlockNext]_vars

\* -------------------------------------------------------- specifications
\* no item constructed, nothing allocated
Init ==
    /\ SceneInit
    /\ ViewInit
    /\ PickInit
    /\ DrawInit
    /\ PlotInit
    /\ CamInit
    /\ MouseInit
    /\ VisInit
    /\ VBOEmpty

\* items, registry: construction, setSelectable, destruction
RegistryNext ==
    \/ \E i \in Items, p \in Items \cup {None}, s \in BOOLEAN,
         c1, c2 \in Colors : Construct(i, p, 0, s, c1, c2)
    \/ \E i \in Items, s, w \in BOOLEAN : SetSelectable(i, s, w)
    \/ \E i \in Items : Del(i)

SpecRegistry == Init /\ [][RegistryNext]_vars

\* hierarchy: construction, addChildItem, recursiveChildItems
TreeNext ==
    \/ \E i \in Items, p \in Items \cup {None}, d \in DepthValues,
         c1, c2 \in Colors : Construct(i, p, d, FALSE, c1, c2)
    \/ \E p, c \in Items : AddChildItem(p, c)
    \/ \E i \in Items : RecursiveChildItems(i)

SpecTree == Init /\ [][TreeNext]_vars

\* the hierarchy: construction, addChildItem, setVisible, the child queries,
\* destruction
HierNext ==
    \/ \E i \in Items, p \in Items \cup {None} : Construct(i, p, 0, FALSE, 1, 1)
    \/ \E p, c \in Items : AddChildItem(p, c)
    \/ \E i \in Items, vis, recursive \in BOOLEAN : SetVisible(i, vis, recursive)
    \/ \E i \in Items : ChildItems(i)
    \/ \E i \in Items : RecursiveChildItems(i)
    \/ \E i \in Items : Del(i)

SpecHier == Init /\ [][HierNext]_vars

\* selection: construction, setSelectable, left-button releases
SelNext ==
    \/ \E i \in Items, p \in Items \cup {None}, s \in BOOLEAN,
         c1, c2 \in Colors : Construct(i, p, 0, s, c1, c2)
    \/ \E i \in Items, s, w \in BOOLEAN : SetSelectable(i, s, w)
    \/ \E cands \in Candidates, ctl \in BOOLEAN : MouseRelease(cands, ctl)

SpecSel == Init /\ [][SelNext]_vars

\* initialization: construction, addItem, the viewport's initializeGL,
\* initialize() calls
InitNext ==
    \/ \E i \in Items, p \in Items \cup {None}, c \in Colors :
         Construct(i, p, 0, FALSE, c, c)
    \/ ViewInitializeGL
    \/ \E i \in Items : AddItem(i, {})
    \/ \E i \in AllItems : Initialize(i)

SpecInit == Init /\ [][InitNext]_vars

\* picking: pickItems calls on a rectangle around the viewport
PickNext ==
    /\ npicks < MaxPicks
    /\ \E x0 \in Coords(DevW), y0 \in Coords(DevH),
          w0 \in (-Margin - 1)..(DevW + Margin),
          h0 \in (-Margin - 1)..(DevH + Margin),
          failAt \in 0..PickSteps, full \in BOOLEAN :
           PickItems(x0, y0, w0, h0, failAt, full)

SpecPick == Init /\ [][PickNext]_vars

\* drawing: items with lights are added to the viewport and drawn
DrawNext ==
    \/ \E i \in Items : Construct(i, None, 0, FALSE, 1, 1)
    \/ \E i \in Items, ls \in SUBSET Lights : AddItem(i, ls)
    \/ \E pickMode \in BOOLEAN, failItems \in SUBSET Items,
          failLights \in SUBSET Lights, order \in DistinctSeqs(Lights, MaxLights) :
         DrawItems(pickMode, failItems, failLights, order)

SpecDraw == Init /\ [][DrawNext]_vars

\* plots: a scatter or line item is built, given data and painted
PlotNext ==
    \/ \E kind \in PlotKinds, posLen \in (-1)..MaxLen, colLen \in (-1)..MaxLen,
          v \in Bytes : PlotConstruct(kind, posLen, colLen, v)
    \/ \E posLen \in (-1)..MaxLen, colLen \in (-1)..MaxLen, v \in Bytes :
         PlotSetData(posLen, colLen, v)
    \/ PlotPaint

SpecPlot == Init /\ [][PlotNext]_vars

\* camera: wheel notches, mouse presses and pans
CamNext ==
    \/ \E delta \in {Notch, -Notch}, ctrl \in BOOLEAN : WheelEvent(delta, ctrl)
    \/ MousePress
    \/ \E shift \in BOOLEAN, d \in {-MaxPan, 0, MaxPan} : Pan(shift, d)

SpecCam == Init /\ [][CamNext]_vars

\* a right-button drag over a small square of cursor positions: press,
\* moves, release
OrbitPos == (0..MaxOrbit) \X (0..MaxOrbit)

OrbitNext ==
    \/ \E lpos \in OrbitPos : MousePressEvent("right", lpos)
    \/ \E lpos \in OrbitPos, shift \in BOOLEAN : MouseMoveEvent(lpos, shift)
    \/ \E lpos \in OrbitPos : MouseReleaseEvent("right", lpos, <<>>, FALSE)

SpecOrbit == Init /\ [][OrbitNext]_vars

\* the cursor on one line, any button
LinePos == {lpos \in MousePos : lpos[2] = 0}

DragNext ==
    \/ \E b \in Buttons, lpos \in LinePos : MousePressEvent(b, lpos)
    \/ \E lpos \in LinePos : MouseMoveEvent(lpos, FALSE)
    \/ \E b \in Buttons, lpos \in LinePos, cands \in Candidates :
           MouseReleaseEvent(b, lpos, cands, FALSE)

SpecDrag == Init /\ [][DragNext]_vars

\* left clicks over a scene of items with pick colors of their own
ClickNext ==
    \/ \E i \in Items, p \in Items \cup {None}, sel \in BOOLEAN :
           Construct(i, p, 0, sel, i % (MaxColor + 1), i % (MaxColor + 1))
    \/ MousePressEvent("left", NullPoint)
    \/ \E cands \in Candidates, ctl \in BOOLEAN :
           MouseReleaseEvent("left", NullPoint, cands, ctl)

SpecClick == Init /\ [][ClickNext]_vars

\* sibling order: construction with any depth key, addChildItem
OrderDepths == 0..(MaxDepth + 1)

OrderNext ==
    \/ \E i \in Items, p \in Items \cup {None}, d \in OrderDepths :
         Construct(i, p, d, FALSE, 1, 1)
    \/ \E p, c \in Items : AddChildItem(p, c)

SpecOrder == Init /\ [][OrderNext]_vars

\* the list pickItems returns: items are built and destroyed, pickItems
\* reads back any pixels
PickListNext ==
    \/ \E i \in Items, s \in BOOLEAN, c \in Colors :
         Construct(i, None, 0, s, c, c)
    \/ \E i \in Items : Del(i)
    \/ \E pixels \in SeqsUpTo(Colors, MaxPixels) : PickRead(pixels)

SpecPickList == Init /\ [][PickListNext]_vars

\* _normalizeRect on rectangles around the viewport, at every ratio
RectNext ==
    /\ npicks < MaxPicks
    /\ \E x0 \in Coords(DevW), y0 \in Coords(DevH),
          w0 \in (-Margin - 1)..(DevW + Margin),
          h0 \in (-Margin - 1)..(DevH + Margin),
          r0 \in 1..MaxRatio :
           NormalizeRect(x0, y0, w0, h0, r0)

SpecRect == Init /\ [][RectNext]_vars

\* ============================================================ properties
\* the live items
Live == {i \in Items : state[i] = "live"}

\* the keys of the registry that resolve to item i
KeysOf(i) == {c \in Colors : registry[c] = i}

\* C1: no two live items hold the same pick color (new_item never hands out
\* a color that is already a key of the registry).
C1_PickColorsUnique ==
    \A i, j \in Live : i # j => item_pickColor[i] # item_pickColor[j]

\* C2: after a selectable item is destroyed, its own pick color no longer
\* resolves to it, whether it was a root, the child of a non-selectable
\* parent or the child of a selectable parent.
C2_DestroyedColorReleased ==
    (last.op = "del" /\ last.flag)
        => registry[item_pickColor[last.item]] # last.item

\* C3: after any sequence of constructions, setSelectable calls and
\* destructions the registry holds exactly one entry for every live
\* selectable item and none for an item that is not selectable or that has
\* been destroyed.
C3_RegistryMatchesSelectable ==
    \A i \in Items :
        Cardinality(KeysOf(i)) =
            IF i \in Live /\ selectable[i] THEN 1 ELSE 0

\* the blocks a call does not name
Unnamed(ids) == Blocks \ Range(ids)

\* C4: an updateData call that reallocates (some requested length exceeds
\* the allocated one) leaves every block it does not name with the bytes it
\* held before, at the block's new offset, whatever the list of ids.
C4_ReallocKeepsUnnamedBlocks ==
    (vbo_last.op = "updateData" /\ vbo_last.extend)
        => Unnamed(vbo_last.ids) \subseteq vbo_last.intact

\* C5: a call whose requested lengths all fit the allocated lengths reports
\* no reallocation, moves and resizes no block, and changes no byte of a
\* block it does not name.
C5_FittingUpdateInPlace ==
    (vbo_last.op = "updateData" /\ vbo_last.fits)
        => /\ ~vbo_last.extend
           /\ vbo_last.layout_same
           /\ Unnamed(vbo_last.ids) \subseteq vbo_last.intact

\* a fitting call on a buffer that has bytes outside the named blocks
C5_Witness ==
    /\ vbo_last.op = "updateData" /\ vbo_last.fits
    /\ vbo_last.ncalls = MaxCalls
    /\ \E b \in Unnamed(vbo_last.ids) : block_lens[b] > 0
    /\ \E n \in 1..Len(vbo_last.ids) : block_used[vbo_last.ids[n]] > 0

\* C6: after construction and after every setBlock, each offset is the sum
\* of the allocated lengths of the blocks before it and sum_lens is the sum
\* of all allocated lengths.
C6_OffsetsArePrefixSums ==
    /\ \A b \in Blocks : block_offsets[b] = SumUpTo(block_lens, b)
    /\ sum_lens = SumUpTo(block_lens, NBlocks)

\* a call that grew a block which is not the last one
C6_Witness ==
    /\ vbo_last.op = "updateData" /\ vbo_last.extend
    /\ \E b \in Blocks : b + 1 \in Blocks /\ block_offsets[b + 1] > MaxLen

\* the descendants of item i in the hierarchy the __parent links define
Descendants(i) == {j \in Items \ {i} : IsAncestor(i, j, parent)}

\* how many times x occurs in s
Count(s, x) == Cardinality({k \in 1..Len(s) : s[k] = x})

\* C7: recursiveChildItems returns every descendant of the item exactly
\* once and nothing else, siblings in ascending order of their depth value,
\* for trees of any depth.
C7_EachDescendantOnce ==
    last.op = "recursiveChildItems"
        => /\ \A j \in Items :
                Count(ret, j) = IF j \in Descendants(last.item) THEN 1 ELSE 0
           /\ \A a, b \in 1..Len(ret) :
                (a < b /\ parent[ret[a]] = parent[ret[b]])
                    => depthValue[ret[a]] <= depthValue[ret[b]]

\* C8: a left release without Ctrl that picks candidates toggles each of
\* them by its selected flag: a candidate that was selected (also one that
\* became so through its parent) is deselected, one that was not is
\* selected.
C8_ToggleBySelectedFlag ==
    (last.op = "release" /\ ~last.flag /\ last.cands # <<>>)
        => \A c \in Range(last.cands) :
               selected[c] = ~(c \in last.pre_selected)

\* C9: a left release without Ctrl that picks nothing leaves selected_items
\* empty and every item that was in it with its selected flag false.
C9_EmptyReleaseClears ==
    (last.op = "release" /\ ~last.flag /\ last.cands = <<>>)
        => /\ selected_items = <<>>
           /\ \A i \in Range(last.pre_items) : ~selected[i]

\* an empty release without Ctrl while a selected item was in the list
C9_Witness ==
    /\ last.op = "release" /\ ~last.flag /\ last.cands = <<>>
    /\ \E i \in Range(last.pre_items) : i \in last.pre_selected

\* C10: a release with Ctrl deselects nothing: without candidates the
\* selection is unchanged, with candidates every candidate is selected
\* afterwards and every item selected before still is.
C10_CtrlNeverDeselects ==
    (last.op = "release" /\ last.flag)
        => /\ last.cands = <<>>
                => /\ selected_items = last.pre_items
                   /\ {i \in Items : selected[i]} = last.pre_selected
           /\ last.cands # <<>>
                => /\ \A c \in Range(last.cands) : selected[c]
                   /\ \A i \in last.pre_selected : selected[i]

RECURSIVE NearestSelectable(_)
\* the nearest selectable proper ancestor of item i along __parent, or None
NearestSelectable(i) ==
    IF parent[i] = None THEN None
    ELSE IF selectable[parent[i]] THEN parent[i]
    ELSE NearestSelectable(parent[i])

\* C11: selected() of a selectable item is its own flag; of an item that is
\* not selectable it is the selection state of the nearest selectable
\* ancestor in the hierarchy, and false when there is none.
C11_SelectedFollowsAncestor ==
    \A i \in Live :
        item_selected(i) =
            IF selectable[i] THEN selected[i]
            ELSE NearestSelectable(i) # None /\ selected[NearestSelectable(i)]

RECURSIVE TopSelectable(_)
\* the item at the top of the chain of selectable parents above item i
TopSelectable(i) ==
    IF parent[i] # None /\ selectable[parent[i]]
    THEN TopSelectable(parent[i])
    ELSE i

\* C12: pickColor() is the zero color for an item that is not selectable,
\* the color its parent reports for a selectable item under a selectable
\* parent, and the item's own registered color for a selectable item with
\* no parent or a parent that is not selectable.
C12_PickColorCases ==
    \A i \in Live :
        pickColor(i, selectable, parent) =
            IF ~selectable[i] THEN 0
            ELSE IF parent[i] # None /\ selectable[parent[i]]
                 THEN item_pickColor[TopSelectable(parent[i])]
                 ELSE item_pickColor[i]

\* all three cases at once, the inherited color differing from the own one
C12_Witness ==
    \E i, j, k \in Live :
        /\ selectable[i] /\ parent[i] # None /\ selectable[parent[i]]
        /\ item_pickColor[i] # item_pickColor[parent[i]]
        /\ ~selectable[j] /\ item_pickColor[j] # 0
        /\ selectable[k] /\ parent[k] = None

\* C13: initializeGL() of an item runs exactly once over the item's life:
\* never a second time, whatever calls it, the selection box included, and
\* an initialize() call that returns leaves it run.
C13_InitializeGLOnce ==
    /\ \A i \in AllItems : initCount[i] <= 1
    /\ (init_last.op = "initialize" /\ ~init_last.raised)
           => initCount[init_last.item] = 1

\* C14: on every exit from pickItems, by return or by an exception raised
\* after the off-screen framebuffer was bound, framebuffer binding, clear
\* color, multisample state, scissor state and viewport are what they were
\* before the call.
C14_PickRestoresGLState ==
    pick_last.op = "pickItems" => gl_state = pick_last.pre

\* C16: pickItems on a rectangle entirely outside the viewport returns an
\* empty list and raises nothing, whatever is drawn inside the viewport.
C16_OutsideRectPicksNothing ==
    (pick_last.op = "pickItems" /\ pick_last.outside /\ pick_last.failAt = 0)
        => ~pick_last.raised /\ ~pick_last.found

\* C15: in drawItems, in normal mode and in pick mode, an exception raised
\* while drawing one entry of items or of lights does not leave drawItems
\* and every other object of the frame is still drawn.
C15_DrawFailuresIsolated ==
    draw_last.op = "drawItems" =>
        /\ ~draw_last.raised
        /\ draw_last.drawnItems = Range(view_items) \ draw_last.failItems
        /\ ~draw_last.pickMode =>
               draw_last.drawnLights = lights \ draw_last.failLights

\* C17: a paint of a plot item that follows a paint of it with no setData
\* in between calls no VBO.updateData, reallocates nothing and leaves the
\* buffer contents as they were; after a paint that went through its
\* update the dirty flags set by setData are false.
C17_SecondPaintUploadsNothing ==
    /\ (plot_last.op = "paint" /\ plot_last.prev = "paint") =>
           /\ plot_last.updates = 0
           /\ ~plot_last.realloc
           /\ gpu.data = plot_last.pre
    /\ (plot_last.op = "paint" /\ plot.num > 0) =>
           /\ ~plot.gl_update_flag
           /\ ~plot.vert_update_flag
           /\ ~plot.color_update_flag

\* a second paint in a row of an item with points whose first paint loaded
\* its data
C17_Witness ==
    /\ plot_last.op = "paint"
    /\ plot_last.prev = "paint"
    /\ plot.num > 0
    /\ gpu.data[0] # <<>>
    /\ gpu.data[1] # <<>>

\* C18: after any sequence of wheel zooms and pans on a camera that starts
\* at or above the floor, the camera distance pos.z is at least 0.1.
C18_DistanceAboveFloor == cam_z >= FloorZ

\* C19: setBlock called with an id outside 0..nblocks-1, negative ids
\* included, raises and updates no block.
C19_BadIdRaises ==
    (vbo_last.op = "setBlock" /\ vbo_last.ids[1] \notin Blocks) =>
        /\ vbo_last.raised
        /\ vbo_last.intact = Blocks

\* C20: after addChildItem(c) on item P in an acyclic hierarchy, the parent
\* of c is P, c occurs exactly once in the child list of P and in the child
\* list of no other item.
C20_ChildOfExactlyOneParent ==
    last.op = "addChildItem" =>
        /\ ~last.raised
        /\ parent[last.item] = last.target
        /\ Count(children[last.target], last.item) = 1
        /\ \A q \in Items \ {last.target} : ~InSeq(last.item, children[q])

\* C21: after any sequence of constructions (any parentItem, any
\* depthValue) and addChildItem calls, every child list is in ascending
\* order of the children's current depth keys.
C21_ChildrenSortedByDepth ==
    \A p \in Items : \A k \in 1..(Len(children[p]) - 1) :
        depthValue[children[p][k]] <= depthValue[children[p][k + 1]]

\* C22: destroying an item removes it from the child list of its parent
\* and sets the parent of each of its former children to none; the
\* children and deeper descendants stay live and keep their child lists.
C22_DestroyDetachesAndOrphans ==
    last.op = "del" =>
        /\ last.target # None => ~InSeq(last.item, children[last.target])
        /\ \A c \in Range(last.pre_children[last.item]) :
               /\ parent[c] = None
               /\ state[c] = "live"
        /\ \A j \in Items \ {last.item, last.target} :
               children[j] = last.pre_children[j]

\* C23: a call setSelectable(s, children=True) on an item leaves that item
\* and all of its descendants with selectable = s, from any prior flags in
\* the subtree, and every item whose selectable flag the call changed has
\* its selected flag false.
C23_SetSelectableReachesSubtree ==
    [][(last'.op = "setSelectable" /\ last'.recursive) =>
          /\ \A j \in Items :
                 IsAncestor(last'.item, j, parent') =>
                     selectable'[j] = last'.flag
          /\ \A j \in Items :
                 selectable'[j] # selectable[j] => ~selected'[j]]_vars

\* C24: the list pickItems returns holds exactly the items registered in
\* the PickColorManager under the non-zero colors among the pixels read
\* back: 0.0 yields none, an item occurs once however many pixels carry its
\* color, a color without entry is skipped and nothing is raised.
C24_PickListIsRegistryImage ==
    pick_last.op = "pickItems" =>
        /\ ~pick_last.raised
        /\ Range(pick_last.items) =
               {pick_last.reg[c] : c \in Range(pick_last.pixels) \ {0}}
                   \ {None}
        /\ \A k1, k2 \in 1..Len(pick_last.items) :
               pick_last.items[k1] = pick_last.items[k2] => k1 = k2

\* pixels with the sentinel, one registered color on two pixels and a color
\* without entry
C24_Witness ==
    /\ pick_last.op = "pickItems"
    /\ Len(pick_last.pixels) = MaxPixels
    /\ 0 \in Range(pick_last.pixels)
    /\ \E k1, k2 \in 1..Len(pick_last.pixels) :
           /\ k1 # k2
           /\ pick_last.pixels[k1] = pick_last.pixels[k2]
           /\ pick_last.pixels[k1] # 0
           /\ pick_last.reg[pick_last.pixels[k1]] # None
    /\ pick_last.items # <<>>

\* C25: _normalizeRect returns width >= 1 and height >= 1 for every input
\* rectangle, zero and negative sizes included, at every ratio from 1 to 5,
\* and a ratio above 5 gives what ratio 5 gives.
C25_NormalizedRectHasArea ==
    pick_last.op = "normalizeRect" =>
        /\ pick_last.rect[3] >= 1
        /\ pick_last.rect[4] >= 1
        /\ pick_last.args[5] > 5 =>
               pick_last.rect = normalizeRect(pick_last.args[1], pick_last.args[2],
                                    pick_last.args[3], pick_last.args[4], 5)

\* C26: after a right-button move (no Shift) orbits the camera, the
\* orientation is the one captured at the press turned by the cursor
\* displacement since the press
C26_OrbitFromPress ==
    (mouse_last.op = "move" /\ mouse_last.orbit /\ ~mouse_last.shift) =>
        cam_quat = orbit(mouse_last.pos[1] - press_pos[1],
                         mouse_last.pos[2] - press_pos[2], cam_press_quat)

\* C27: at any time, for live items p and c, c is in the child list of p
\* exactly if the parent of c is p
C27_HierarchyConsistent ==
    \A p, c \in Items :
        (state[p] = "live" /\ state[c] = "live") =>
            (InSeq(c, children[p]) <=> parent[c] = p)

\* C28: destroying an item leaves every registry entry that resolved to
\* another live item as it was, the entry of the item's parent included
C28_DestroyRemovesOwnEntryOnly ==
    [][last'.op = "del" =>
        \A c \in Colors :
            (registry[c] # None /\ registry[c] # last'.item /\
             state[registry[c]] = "live") => registry'[c] = registry[c]]_vars

\* C29: after any sequence of left-button releases, no item is twice in
\* selected_items and every item in it has its selected flag set
C29_SelectedListMatchesFlags ==
    mouse_last.op = "release" =>
        /\ \A j \in Items : Count(selected_items, j) <= 1
        /\ \A k \in 1..Len(selected_items) : selected[selected_items[k]]

\* C30: a left-button release resolves the rectangle that starts where the
\* left button went down
C30_StartIsLeftPress ==
    (mouse_last.op = "release" /\ mouse_last.resolved) =>
        mouse_last.start = left_press_pos

====
